---- MODULE Spec2Model ----
(***************************************************************************)
(* Model of two easyblocks: EB_NEURON (easybuild/easyblocks/n/neuron.py)   *)
(* and JuliaBundle (easybuild/easyblocks/generic/juliabundle.py).          *)
(*                                                                         *)
(* Strings that the code only passes around are TLA+ strings.  Strings     *)
(* that the code builds, splits or matches are sequences of tokens:        *)
(*   - option lists are sequences of whitespace-separated options,         *)
(*   - paths are sequences of path components,                             *)
(*   - command output is a sequence of characters, where the literals the  *)
(*     regular expressions look for ("-65", "I am ", ...) are one token.   *)
(* An optional value (None, an unbound local, an attribute that was never  *)
(* set) is the empty sequence <<>>, a present value v is <<v>>.            *)
(***************************************************************************)
EXTENDS Integers, Sequences, FiniteSets, TLC

VARIABLES
    env,            \* the build: software roots of the dependencies, configopts of the easyconfig
    cfg,            \* EB_NEURON: self.cfg (paranrn, configopts) and self.version
    stage,          \* EB_NEURON: the last lifecycle hook that ran
    with_python,    \* EB_NEURON: self.with_python
    pylibdir,       \* EB_NEURON: self.pylibdir
    cmake,          \* EB_NEURON: configopts seen by CMakeMake.configure_step, if it was called
    sc,             \* EB_NEURON: the last run of sanity_check_step (inputs read, calls made, error)
    PYTHONPATH,     \* EB_NEURON: self.module_load_environment.PYTHONPATH, if set
    jec,            \* JuliaBundle: the easyconfig as it was parsed
    jcfg,           \* JuliaBundle: self.cfg
    jprep,          \* JuliaBundle: what the last prepare_step read (Julia root and version)
    jstage,         \* JuliaBundle: the last lifecycle hook that ran
    julia_project_toml,  \* JuliaBundle: self.julia_project_toml, if set
    julia_project_env,   \* JuliaBundle: self.julia_project_env, if set
    dirs,           \* JuliaBundle: directories that exist on the file system
    jmod,           \* JuliaBundle: result of the last make_module_extra
    jerr            \* JuliaBundle: exception raised by the last hook, if any

nvars == <<env, cfg, stage, with_python, pylibdir, cmake, sc, PYTHONPATH>>
jvars == <<jec, jcfg, jprep, jstage, julia_project_toml, julia_project_env, dirs, jmod, jerr>>
vars == <<env, cfg, stage, with_python, pylibdir, cmake, sc, PYTHONPATH,
          jec, jcfg, jprep, jstage, julia_project_toml, julia_project_env, dirs, jmod, jerr>>

None == <<>>
Some(v) == <<v>>

\* Python truthiness of an optional string: None and '' are false
Truthy(o) == o /= None /\ o[1] /= ""

\* os.path.join on paths held as sequences of components
PathJoin(a, b) == a \o b

----------------------------------------------------------------------------
(* EB_NEURON                                                               *)

installdir == "/sw/NEURON"

\* self.cfg.update('configopts', value): the value is appended after a blank
CfgUpdate(opts, value) == opts \o value

\* MpiOpt with the else branch lost
MpiOptAlwaysOn(paranrn) == <<"-DNRN_ENABLE_MPI=ON">>

\* neuron.py 66-69
MpiOpt(paranrn) ==
    IF paranrn THEN <<"-DNRN_ENABLE_MPI=ON">> ELSE <<"-DNRN_ENABLE_MPI=OFF">>

\* neuron.py 72-76
InterViewsOpt(interviews_root) ==
    IF Truthy(interviews_root)
    THEN <<"-DIV_DIR=" \o interviews_root[1], "-DNRN_ENABLE_INTERVIEWS=ON">>
    ELSE <<"-DNRN_ENABLE_INTERVIEWS=OFF">>

\* neuron.py 79-86: the two updates of the Python branch, in order
PythonOpt(python_root) ==
    IF Truthy(python_root)
    THEN <<"-DNRN_ENABLE_PYTHON=ON", "-DPYTHON_EXECUTABLE=" \o python_root[1] \o "/bin/python">>
         \o <<"-DNRN_ENABLE_MODULE_INSTALL=ON",
              "-DNRN_MODULE_INSTALL_OPTIONS='--prefix=" \o installdir \o "'">>
    ELSE <<"-DNRN_ENABLE_PYTHON=OFF">>

\* configopts when configure_step reaches the call of the parent's configure_step
ConfigureOpts(opts, paranrn, interviews_root, python_root) ==
    CfgUpdate(CfgUpdate(CfgUpdate(opts, MpiOpt(paranrn)),
                        InterViewsOpt(interviews_root)),
              PythonOpt(python_root))

\* EB_NEURON.configure_step
configure_step ==
    /\ stage = "init"
    /\ LET opts == ConfigureOpts(cfg.configopts, cfg.paranrn,
                                 env.interviews_root, env.python_root)
       IN /\ cfg' = [cfg EXCEPT !.configopts = opts]
          /\ cmake' = Some(opts)
    /\ with_python' = IF Truthy(env.python_root) THEN TRUE ELSE with_python
    /\ pylibdir' = "det_pylibdir()"
    /\ stage' = "configure"
    /\ UNCHANGED <<env, sc, PYTHONPATH>>
    /\ UNCHANGED jvars

----------------------------------------------------------------------------
(* Regular expressions (the re module), on sequences of tokens.            *)
(* A pattern is a sequence of elements: "^" (line start, re.M), "\\s" (one *)
(* whitespace character), "\\s*", "." and a literal token.  A literal of   *)
(* several characters is one token of the pattern and of the text; no      *)
(* token of the texts below has a proper prefix or suffix that another     *)
(* element could match, so matching tokens is matching characters.         *)

SP == " "
NL == "\n"

Bol == [k |-> "^", t |-> ""]
Ws == [k |-> "\\s", t |-> ""]
WsStar == [k |-> "\\s*", t |-> ""]
AnyChar == [k |-> ".", t |-> ""]
Lit(tok) == [k |-> "lit", t |-> tok]

\* \s matches blanks and newlines alike
IsSpace(c) == c \in {SP, NL}

\* tokens that are one character
IsChar(c) == c \in {SP, NL, ".", "x", "0", "1", "2", "3", "4", "5", "6", "7", "8", "9"}

\* the pattern from element pi on matches the text at position si
RECURSIVE Match(_, _, _, _)
Match(p, s, pi, si) ==
    IF pi > Len(p) THEN TRUE
    ELSE LET e == p[pi] IN
         CASE e.k = "^" ->
                (si = 1 \/ s[si - 1] = NL) /\ Match(p, s, pi + 1, si)
           [] e.k = "\\s" ->
                si <= Len(s) /\ IsSpace(s[si]) /\ Match(p, s, pi + 1, si + 1)
           [] e.k = "\\s*" ->
                \/ Match(p, s, pi + 1, si)
                \/ si <= Len(s) /\ IsSpace(s[si]) /\ Match(p, s, pi, si + 1)
           [] e.k = "." ->
                si <= Len(s) /\ IsChar(s[si]) /\ s[si] /= NL /\ Match(p, s, pi + 1, si + 1)
           [] OTHER ->
                si <= Len(s) /\ s[si] = e.t /\ Match(p, s, pi + 1, si + 1)

\* regexp.search(text) is not None
Search(p, s) == \E si \in 1..(Len(s) + 1) : Match(p, s, 1, si)

\* neuron.py 138: r"^\s+-65\s*\n\s+5\s*\n\s+-68.134337" with re.M
DemoRegexp ==
    <<Bol, Ws, WsStar, Lit("-65"), WsStar, Lit(NL),
      Ws, WsStar, Lit("5"), WsStar, Lit(NL),
      Ws, WsStar, Lit("-68"), AnyChar, Lit("134337")>>

\* neuron.py 139: the condition under which the demo validation raises
DemoFails(res) == res.exit_code /= 0 \/ ~Search(DemoRegexp, res.output)

Digit == <<"1", "2", "3", "4", "5", "6", "7", "8", "9">>

\* format(n, 'd')
RECURSIVE Dec(_)
Dec(n) ==
    IF n = 0 THEN <<"0">>
    ELSE IF n < 10 THEN <<Digit[n]>>
    ELSE Dec(n \div 10) \o Dec(n % 10)

Lits(toks) == [i \in 1..Len(toks) |-> Lit(toks[i])]

\* neuron.py 158: f"I am {i:d} of {nproc:d}"
RankRegexp(i, nproc) == Lits(<<"I am ">> \o Dec(i) \o <<" of ">> \o Dec(nproc))

\* RanksValid with the loop starting at rank 1
RanksValidFromOne(output, i, nproc) ==
    \A j \in (i + 1)..(nproc - 1) : Search(RankRegexp(j, nproc), output)

\* neuron.py 156-161: the loop over range(0, nproc), from rank i on
RECURSIVE RanksValid(_, _, _)
RanksValid(output, i, nproc) ==
    IF i >= nproc THEN TRUE
    ELSE IF ~Search(RankRegexp(i, nproc), output) THEN FALSE
    ELSE RanksValid(output, i + 1, nproc)

\* neuron.py 162: the condition under which the parallel validation raises
MpiFails(res, nproc) == res.exit_code /= 0 \/ ~RanksValid(res.output, 0, nproc)

----------------------------------------------------------------------------
(* EB_NEURON.sanity_check_step                                             *)

\* neuron.py 101-106
SanityCheckDirs(wp, version) ==
    <<<<"include">>, <<"share", "nrn">>>>
    \o (IF wp THEN <<PathJoin(<<"lib">>, <<"python">>)>> ELSE <<>>)
    \o (IF wp /\ version < 8
        THEN <<PathJoin(<<"lib">>, <<"python%(pyshortver)s", "site-packages">>)>>
        ELSE <<>>)

DemoError == "Validation of NEURON demo run failed."
MpiError == "Validation of parallel hello world run failed."
MpiOSError == "Failed to run parallel hello world: OSError"
PathsError == "Sanity check failed: paths not found"
PythonTestError == "Shell command failed: python -c 'import neuron; neuron.test()'"
UnboundLocalError == "UnboundLocalError: local variable 'fake_mod_data' referenced before assignment"

ExitCodes == {0, 1}

\* a run of sanity_check_step before its first statement
SCNone ==
    [ran |-> FALSE, dirs |-> <<>>, fake_mod_data |-> None, demo |-> None,
     mpi_tests |-> None, nproc |-> None, mpi |-> None,
     calls |-> <<>>, error |-> None]

Call(r, c) == [r EXCEPT !.calls = Append(@, c)]
Raise(r, e) == [r EXCEPT !.error = Some(e)]

\* neuron.py 173: self.clean_up_fake_module(fake_mod_data); the local is unbound
\* when load_fake_module raised
CleanUp(r) ==
    IF r.fake_mod_data = None
    THEN Raise(r, UnboundLocalError)
    ELSE Call(r, "clean_up_fake_module(" \o r.fake_mod_data[1] \o ")")

\* neuron.py 168-173: from the Python test on
PythonPart(r, wp) ==
    IF wp
    THEN LET r1 == Call(r, "run_shell_cmd(python -c 'import neuron; neuron.test()')")
         IN \E passed \in BOOLEAN :
              sc' = IF passed THEN CleanUp(r1) ELSE Raise(r1, PythonTestError)
    ELSE sc' = CleanUp(r)

\* neuron.py 149-173: from the MPI command on, once os.chdir to the test directory
\* succeeded; the os.chdir back can raise OSError too
MpiRun(r, nproc, wp, MpiDom) ==
    \E res \in [exit_code : ExitCodes, output : MpiDom], chdir_back \in BOOLEAN :
        LET r1 == [Call(r, "run_shell_cmd(mpi_cmd_for(nrniv -mpi test0.hoc))")
                     EXCEPT !.mpi = Some(res)]
        IN IF ~chdir_back THEN sc' = Raise(r1, MpiOSError)
           ELSE IF MpiFails(res, nproc) THEN sc' = Raise(r1, MpiError)
           ELSE PythonPart(r1, wp)

\* neuron.py 143-173: from the check of build_option('mpi_tests') on
MpiPart(r, wp, NprocDom, MpiDom) ==
    \E mpi_tests \in BOOLEAN :
        IF mpi_tests
        THEN \E nproc \in NprocDom, chdir \in BOOLEAN :
               LET r1 == [r EXCEPT !.mpi_tests = Some(TRUE), !.nproc = Some(nproc)]
               IN IF ~chdir THEN sc' = Raise(r1, MpiOSError)
                  ELSE MpiRun(r1, nproc, wp, MpiDom)
        ELSE PythonPart([r EXCEPT !.mpi_tests = Some(FALSE)], wp)

\* neuron.py 125-173: from the NEURON demo on
DemoPart(r, wp, DemoDom, NprocDom, MpiDom) ==
    \E res \in [exit_code : ExitCodes, output : DemoDom] :
        LET r1 == [Call(r, "run_shell_cmd(neurondemo)") EXCEPT !.demo = Some(res)]
        IN IF DemoFails(res) THEN sc' = Raise(r1, DemoError)
           ELSE MpiPart(r1, wp, NprocDom, MpiDom)

\* neuron.py 120-173: from load_fake_module on; its EasyBuildError is logged and
\* leaves fake_mod_data unbound
LoadPart(r, wp, DemoDom, NprocDom, MpiDom) ==
    \E loaded \in BOOLEAN :
        LET r1 == Call(r, "load_fake_module")
        IN DemoPart(IF loaded THEN [r1 EXCEPT !.fake_mod_data = Some("fake_mod_data")] ELSE r1,
                    wp, DemoDom, NprocDom, MpiDom)

\* EB_NEURON.sanity_check_step, for the outputs the commands can give (DemoDom,
\* MpiDom) and the values of cfg['parallel'] (NprocDom)
sanity_check_step(DemoDom, NprocDom, MpiDom) ==
    /\ stage \in {"init", "configure"}
    /\ LET r0 == Call([SCNone EXCEPT !.ran = TRUE,
                                     !.dirs = SanityCheckDirs(with_python, cfg.version)],
                      "super.sanity_check_step")
       IN \E paths_found \in BOOLEAN :
            IF ~paths_found THEN sc' = Raise(r0, PathsError)
            ELSE LoadPart(r0, with_python, DemoDom, NprocDom, MpiDom)
    /\ stage' = "sanity_check"
    /\ UNCHANGED <<env, cfg, with_python, pylibdir, cmake, PYTHONPATH>>
    /\ UNCHANGED jvars

----------------------------------------------------------------------------
(* EB_NEURON.make_module_step                                              *)

\* ModulePythonPath with the version compared by <=
ModulePythonPathUpTo8(wp, version, old) ==
    IF wp
    THEN IF version <= 8
         THEN Some(<<PathJoin(<<"lib">>, <<"python*", "site-packages">>)>>)
         ELSE Some(<<PathJoin(<<"lib">>, <<"python">>)>>)
    ELSE old

\* neuron.py 179-184
ModulePythonPath(wp, version, old) ==
    IF wp
    THEN IF version < 8
         THEN Some(<<PathJoin(<<"lib">>, <<"python*", "site-packages">>)>>)
         ELSE Some(<<PathJoin(<<"lib">>, <<"python">>)>>)
    ELSE old

\* EB_NEURON.make_module_step; a build stops at the first step that raises
make_module_step ==
    /\ stage \in {"init", "configure", "sanity_check"}
    /\ sc.error = None
    /\ PYTHONPATH' = ModulePythonPath(with_python, cfg.version, PYTHONPATH)
    /\ stage' = "make_module"
    /\ UNCHANGED <<env, cfg, with_python, pylibdir, cmake, sc>>
    /\ UNCHANGED jvars

----------------------------------------------------------------------------
(* JuliaBundle                                                             *)

\* juliabundle.py 64: the keys of JuliaPackage.extra_options(), the parameters of
\* a Julia package
JlpkgKeys == {"download_pkg_deps", "options"}

EXTS_FILTER_JULIA_PACKAGES == "EXTS_FILTER_JULIA_PACKAGES"

\* juliabundle.py 73-78
DefaultSources ==
    <<[download_filename |-> "v%(version)s.tar.gz",
       filename |-> "%(name)s-%(version)s.tar.gz"]>>

\* d[key] = value on a dict held as a function
DictSet(d, key, value) ==
    [k \in (DOMAIN d) \cup {key} |-> IF k = key THEN value ELSE d[k]]

\* DefaultOptions without the test for keys that are present
DefaultOptionsOverwrite(opts, top, keys) ==
    [k \in (DOMAIN opts) \cup keys |-> IF k \in keys THEN top[k] ELSE opts[k]]

\* juliabundle.py 64-67: the loop over jlpkg_keys, for the keys still to visit
RECURSIVE DefaultOptions(_, _, _)
DefaultOptions(opts, top, keys) ==
    IF keys = {} THEN opts
    ELSE LET key == CHOOSE k \in keys : TRUE
         IN DefaultOptions(IF key \notin DOMAIN opts THEN DictSet(opts, key, top[key]) ELSE opts,
                           top, keys \ {key})

\* juliabundle.py 72-78
DefaultSourcesOption(opts) ==
    IF "sources" \notin DOMAIN opts THEN DictSet(opts, "sources", DefaultSources) ELSE opts

\* JuliaBundle.__init__
JuliaBundle_init ==
    /\ jstage = "new"
    /\ jcfg' = [jcfg EXCEPT
                  !.exts_defaultclass = Some("JuliaPackage"),
                  !.exts_filter = Some(EXTS_FILTER_JULIA_PACKAGES),
                  !.exts_default_options =
                      DefaultSourcesOption(DefaultOptions(@, jcfg.top, JlpkgKeys))]
    /\ jstage' = "init"
    /\ UNCHANGED <<jec, jprep, julia_project_toml, julia_project_env, dirs, jmod, jerr>>
    /\ UNCHANGED nvars

jinstalldir == <<"installdir">>

\* str.split(sep): the components of s after its first n characters, cur being the
\* component read so far
RECURSIVE SplitFrom(_, _, _, _)
SplitFrom(s, sep, n, cur) ==
    IF n > Len(s) THEN <<cur>>
    ELSE IF s[n] = sep THEN <<cur>> \o SplitFrom(s, sep, n + 1, <<>>)
    ELSE SplitFrom(s, sep, n + 1, Append(cur, s[n]))

Split(s, sep) == SplitFrom(s, sep, 1, <<>>)

\* juliabundle.py 91: "v{}.{}".format(*julia_version[:2]), as one path component
JuliaEnvDir(julia_version) == <<"v">> \o julia_version[1] \o <<".">> \o julia_version[2]

\* juliabundle.py 92
ProjectToml(julia_version) ==
    PathJoin(<<"environments", JuliaEnvDir(julia_version)>>, <<"Project.toml">>)

\* os.path.dirname
Dirname(path) == SubSeq(path, 1, Len(path) - 1)

\* ProjectEnv without os.path.dirname
ProjectEnvOfFile(toml) == PathJoin(jinstalldir, toml)

\* juliabundle.py 93
ProjectEnv(toml) == Dirname(PathJoin(jinstalldir, toml))

\* mkdir(path, parents=True): the directory and its missing parents exist afterwards
Mkdir(fs, path) == fs \cup {SubSeq(path, 1, n) : n \in 1..Len(path)}

NoJuliaError == "Julia not included as dependency!"
FormatIndexError == "IndexError: Replacement index 1 out of range for positional args tuple"

\* JuliaBundle.prepare_step, for the root and the version of Julia it reads
prepare_step(RootDom, VersionDom) ==
    /\ jstage = "init"
    /\ jstage' = "prepare"
    /\ \E root \in RootDom :
         IF root = None
         THEN /\ jprep' = [root |-> root, version |-> None]
              /\ jerr' = Some(NoJuliaError)
              /\ UNCHANGED <<julia_project_toml, julia_project_env, dirs>>
         ELSE \E version \in VersionDom :
                LET julia_version == Split(version, ".")
                IN /\ jprep' = [root |-> root, version |-> Some(version)]
                   /\ IF Len(julia_version) < 2
                      THEN /\ jerr' = Some(FormatIndexError)
                           /\ UNCHANGED <<julia_project_toml, julia_project_env, dirs>>
                      ELSE /\ julia_project_toml' = Some(ProjectToml(julia_version))
                           /\ julia_project_env' = Some(ProjectEnv(ProjectToml(julia_version)))
                           /\ dirs' = Mkdir(dirs, ProjectEnv(ProjectToml(julia_version)))
                           /\ jerr' = None
    /\ UNCHANGED <<jec, jcfg, jmod>>
    /\ UNCHANGED nvars

\* a part of a module text
Chunk(op, arg, paths) == [op |-> op, arg |-> arg, paths |-> paths]

\* ModuleExtra with the initialisation after the appends
ModuleExtraInitLast(syntax, toml) ==
    <<Chunk("Bundle.make_module_extra", "", <<>>)>>
    \o <<Chunk("append_paths", "JULIA_DEPOT_PATH", <<<<>>>>)>>
    \o <<Chunk("append_paths", "JULIA_LOAD_PATH", <<toml>>)>>
    \o (IF Truthy(syntax) THEN <<Chunk("JULIA_PATHS_SOFT_INIT", syntax[1], <<>>)>> ELSE <<>>)

\* juliabundle.py 105-109: the module text, as the sequence of its parts
ModuleExtra(syntax, toml) ==
    <<Chunk("Bundle.make_module_extra", "", <<>>)>>
    \o (IF Truthy(syntax) THEN <<Chunk("JULIA_PATHS_SOFT_INIT", syntax[1], <<>>)>> ELSE <<>>)
    \o <<Chunk("append_paths", "JULIA_DEPOT_PATH", <<<<>>>>)>>
    \o <<Chunk("append_paths", "JULIA_LOAD_PATH", <<toml>>)>>

\* JuliaBundle.make_module_extra, for the syntax of the module generator
make_module_extra(SyntaxDom) ==
    /\ jstage = "prepare"
    /\ jerr = None
    /\ jstage' = "make_module_extra"
    /\ \E syntax \in SyntaxDom :
         jmod' = Some([syntax |-> syntax, text |-> ModuleExtra(syntax, julia_project_toml[1])])
    /\ UNCHANGED <<jec, jcfg, jprep, julia_project_toml, julia_project_env, dirs, jerr>>
    /\ UNCHANGED nvars

----------------------------------------------------------------------------
(* Inputs                                                                  *)

MaxDemoLines == 3
MaxNproc == 2
MaxMpiLines == 2
MaxVerLen == 5

\* '\n'.join(lines)
RECURSIVE JoinLines(_)
JoinLines(ls) ==
    IF Len(ls) = 0 THEN <<>>
    ELSE IF Len(ls) = 1 THEN ls[1]
    ELSE ls[1] \o <<NL>> \o JoinLines(Tail(ls))

SeqsUpTo(S, n) == UNION {[1..m -> S] : m \in 0..n}

\* lines that neurondemo can print
DemoLines ==
    {<<>>, <<SP, "-65">>, <<"-65">>, <<SP, "5">>,
     <<SP, "-68", ".", "134337">>, <<SP, "-68", ".", "134337", "5">>,
     <<SP, "-68", "x", "134337">>}

DemoOutputs == {JoinLines(ls) : ls \in SeqsUpTo(DemoLines, MaxDemoLines)}

DemoGood == JoinLines(<<<<SP, "-65">>, <<SP, "5">>, <<SP, "-68", ".", "134337">>>>)

DemoFew == {DemoGood, <<>>}

\* lines that the parallel hello world can print: a rank and a number of ranks,
\* which can be nproc, another number or a number that starts with the digits of nproc
MpiLine(rank, total) == <<"I am ">> \o Dec(rank) \o <<" of ">> \o Dec(total)

MpiLines ==
    {MpiLine(r, t) : r \in 0..(MaxNproc - 1), t \in {MaxNproc - 1, MaxNproc, 10}}
    \cup {<<"x">>}

MpiOutputs == {JoinLines(ls) : ls \in SeqsUpTo(MpiLines, MaxMpiLines)}

MpiGood(nproc) == JoinLines([i \in 1..nproc |-> MpiLine(i - 1, nproc)])

MpiFew == {MpiGood(n) : n \in 1..MaxNproc} \cup {<<>>}

Roots(name) == {None, Some("/sw/" \o name)}

NeuronBuilds ==
    [interviews_root : Roots("InterViews"), python_root : Roots("Python"),
     paranrn : BOOLEAN, version : {7, 8},
     configopts : {<<>>, <<"-DNRN_ENABLE_MPI=OFF">>}]

\* builds that differ in what the sanity check reads only
NeuronBuildsFew ==
    {b \in NeuronBuilds : /\ b.interviews_root = None
                          /\ b.paranrn
                          /\ b.configopts = <<>>}

\* EB_NEURON.__init__ (neuron.py 56-61) on the easyconfig of one of the builds
NeuronInit(Builds) ==
    /\ \E b \in Builds :
         /\ env = b
         /\ cfg = [paranrn |-> b.paranrn, configopts |-> b.configopts, version |-> b.version]
    /\ stage = "init"
    /\ with_python = FALSE
    /\ pylibdir = "UNKNOWN"
    /\ cmake = None
    /\ sc = SCNone
    /\ PYTHONPATH = None

JuliaVersions == SeqsUpTo({"1", "9", "."}, MaxVerLen)

OtherSources == <<[download_filename |-> "%(version)s.zip", filename |-> "%(name)s.zip"]>>

JuliaDefaultOptions ==
    UNION {[K -> {"easyconfig"}] : K \in SUBSET JlpkgKeys}

JuliaExtsDefaultOptions ==
    JuliaDefaultOptions \cup {DictSet(d, "sources", OtherSources) : d \in JuliaDefaultOptions}

JuliaEasyconfigs ==
    [top : [JlpkgKeys -> {"top-level", "top-level'"}],
     exts_defaultclass : {None, Some("PythonPackage")},
     exts_filter : {None, Some("python -c 'import %(ext_name)s'")},
     exts_default_options : JuliaExtsDefaultOptions]

\* a bundle before JuliaBundle.__init__, on one of the easyconfigs
JuliaInit(Easyconfigs) ==
    /\ jec \in Easyconfigs
    /\ jcfg = jec
    /\ jstage = "new"
    /\ jprep = [root |-> None, version |-> None]
    /\ julia_project_toml = None
    /\ julia_project_env = None
    /\ dirs = {}
    /\ jmod = None
    /\ jerr = None

OneOf(S) == {CHOOSE x \in S : TRUE}

\* the module generators: ModuleGeneratorLua and ModuleGeneratorTcl
Syntaxes == {Some("Lua"), Some("Tcl")}

\* the lifecycle of an EB_NEURON build
Init == NeuronInit(NeuronBuilds) /\ JuliaInit(OneOf(JuliaEasyconfigs))

Next ==
    \/ configure_step
    \/ sanity_check_step(DemoFew, 1..MaxNproc, MpiFew)
    \/ make_module_step

Spec == Init /\ [][Next]_vars

\* the sanity check of EB_NEURON, for the outputs of neurondemo
InitDemo == NeuronInit(NeuronBuildsFew) /\ JuliaInit(OneOf(JuliaEasyconfigs))

NextDemo ==
    \/ configure_step
    \/ sanity_check_step(DemoOutputs, {1}, {MpiGood(1), <<>>})

SpecDemo == InitDemo /\ [][NextDemo]_vars

\* the sanity check of EB_NEURON, for the outputs of the parallel hello world
InitMpi == NeuronInit(NeuronBuildsFew) /\ JuliaInit(OneOf(JuliaEasyconfigs))

NextMpi ==
    \/ configure_step
    \/ sanity_check_step(DemoFew, 1..MaxNproc, MpiOutputs)

SpecMpi == InitMpi /\ [][NextMpi]_vars

\* the lifecycle of a JuliaBundle
InitJulia == NeuronInit(OneOf(NeuronBuilds)) /\ JuliaInit(JuliaEasyconfigs)

NextJulia ==
    \/ JuliaBundle_init
    \/ prepare_step(Roots("Julia"), JuliaVersions)
    \/ make_module_extra(Syntaxes)

SpecJulia == InitJulia /\ [][NextJulia]_vars

----------------------------------------------------------------------------
(* Properties                                                              *)

Range(f) == {f[i] : i \in DOMAIN f}
Count(f, x) == Cardinality({i \in DOMAIN f : f[i] = x})

\* s holds m as a contiguous part
Contains(s, m) == \E k \in 0..(Len(s) - Len(m)) : SubSeq(s, k + 1, k + Len(m)) = m

\* what configure_step appended to the configopts of the easyconfig
Appended == SubSeq(cfg.configopts, Len(env.configopts) + 1, Len(cfg.configopts))

ExactlyOne(on, off) == Count(Appended, on) + Count(Appended, off) = 1

AllRoots == Roots("InterViews") \cup Roots("Python")

\* C1: once configure_step has run, the options it appended hold exactly one of
\* -DNRN_ENABLE_MPI=ON/OFF (ON iff paranrn), exactly one of
\* -DNRN_ENABLE_INTERVIEWS=ON/OFF (ON iff InterViews is a dependency, with
\* -DIV_DIR=<root> iff ON) and exactly one of -DNRN_ENABLE_PYTHON=ON/OFF (ON iff
\* Python is a dependency, with -DPYTHON_EXECUTABLE and the module install options
\* iff ON); the parent's configure_step saw all of them, and nothing was appended
\* after it or changed before them.
ConfigureFlags ==
    stage /= "init" /\ cmake /= None =>
        /\ SubSeq(cfg.configopts, 1, Len(env.configopts)) = env.configopts
        /\ ExactlyOne("-DNRN_ENABLE_MPI=ON", "-DNRN_ENABLE_MPI=OFF")
        /\ Count(Appended, "-DNRN_ENABLE_MPI=ON") = 1 <=> cfg.paranrn
        /\ ExactlyOne("-DNRN_ENABLE_INTERVIEWS=ON", "-DNRN_ENABLE_INTERVIEWS=OFF")
        /\ Count(Appended, "-DNRN_ENABLE_INTERVIEWS=ON") = 1 <=> env.interviews_root /= None
        /\ \A r \in AllRoots \ {None} :
             Count(Appended, "-DIV_DIR=" \o r[1]) =
                 IF env.interviews_root = r THEN 1 ELSE 0
        /\ ExactlyOne("-DNRN_ENABLE_PYTHON=ON", "-DNRN_ENABLE_PYTHON=OFF")
        /\ Count(Appended, "-DNRN_ENABLE_PYTHON=ON") = 1 <=> env.python_root /= None
        /\ \A r \in AllRoots \ {None} :
             Count(Appended, "-DPYTHON_EXECUTABLE=" \o r[1] \o "/bin/python") =
                 IF env.python_root = r THEN 1 ELSE 0
        /\ Count(Appended, "-DNRN_ENABLE_MODULE_INSTALL=ON") =
               IF env.python_root /= None THEN 1 ELSE 0
        /\ Count(Appended, "-DNRN_MODULE_INSTALL_OPTIONS='--prefix=" \o installdir \o "'") =
               IF env.python_root /= None THEN 1 ELSE 0
        /\ cmake = Some(cfg.configopts)

ConfigureFlagsWitness ==
    /\ stage = "configure"
    /\ ~cfg.paranrn
    /\ env.interviews_root /= None
    /\ env.python_root = None
    /\ env.configopts /= <<>>

\* a PYTHONPATH entry of the module (a glob) names a directory of the sanity check
Corresponds(entry, dir) ==
    /\ Len(entry) = Len(dir)
    /\ \A i \in 1..Len(entry) :
         \/ entry[i] = dir[i]
         \/ entry[i] = "python*" /\ dir[i] \in {"python", "python%(pyshortver)s"}

LibPython == <<"lib", "python">>
SitePackages == <<"lib", "python%(pyshortver)s", "site-packages">>

\* C7: make_module_step sets PYTHONPATH iff with_python, to lib/python*/site-packages
\* for a version below 8 and to lib/python otherwise; sanity_check_step requires
\* lib/python iff with_python and lib/python%(pyshortver)s/site-packages iff
\* with_python and the version is below 8; so every PYTHONPATH entry corresponds to a
\* directory the sanity check requires, and without with_python neither has a
\* Python path.
PythonPaths ==
    /\ stage = "make_module" =>
         /\ PYTHONPATH /= None <=> with_python
         /\ with_python =>
              PYTHONPATH = Some(IF cfg.version < 8
                                THEN <<<<"lib", "python*", "site-packages">>>>
                                ELSE <<<<"lib", "python">>>>)
    /\ sc.ran =>
         /\ LibPython \in Range(sc.dirs) <=> with_python
         /\ SitePackages \in Range(sc.dirs) <=> with_python /\ cfg.version < 8
         /\ \A d \in Range(sc.dirs) :
              d \in {<<"include">>, <<"share", "nrn">>, LibPython, SitePackages}
    /\ stage = "make_module" /\ sc.ran /\ PYTHONPATH /= None =>
         \A e \in Range(PYTHONPATH[1]) : \E d \in Range(sc.dirs) : Corresponds(e, d)
    /\ ~with_python => PYTHONPATH = None

PythonPathsWitness ==
    /\ stage = "make_module"
    /\ sc.ran
    /\ with_python
    /\ cfg.version < 8
    /\ PYTHONPATH /= None

\* C9: the value of with_python that sanity_check_step and make_module_step read
\* is whether Python is a dependency of the build, also when configure_step was
\* skipped.
WithPythonIsPythonDependency ==
    sc.ran \/ stage = "make_module" => (with_python <=> env.python_root /= None)

CleanUpCall == "clean_up_fake_module(fake_mod_data)"

\* C8: a run of sanity_check_step that loaded the fake module calls
\* clean_up_fake_module exactly once with the data load_fake_module returned,
\* however the run ends; a run in which load_fake_module raised does not call it
\* and ends with no error but those of the validations.
FakeModuleCleanedUp ==
    Count(sc.calls, "load_fake_module") = 1 =>
        /\ sc.fake_mod_data /= None => Count(sc.calls, CleanUpCall) = 1
        /\ sc.fake_mod_data = None =>
             /\ Count(sc.calls, CleanUpCall) = 0
             /\ sc.error \in {None, Some(DemoError), Some(MpiError)}

\* the lines of a text
Lines(s) == Split(s, NL)

\* a line holds a value the way the interpreter prints one: after blanks and with
\* nothing but blanks behind it
Holds(line, value) ==
    \E a \in 1..Len(line), b \in 0..Len(line) :
        /\ line = [i \in 1..a |-> SP] \o value \o [i \in 1..b |-> SP]

\* a line holds a value that starts with the given digits
HoldsStart(line, value) ==
    \E a \in 1..Len(line), b \in 0..Len(line) :
        /\ Len(line) >= a + Len(value)
        /\ SubSeq(line, 1, a + Len(value)) = [i \in 1..a |-> SP] \o value
        /\ \A i \in (a + Len(value) + 1)..Len(line) : line[i] /= SP \/ i > Len(line) - b

\* three consecutive lines hold -65, then 5, then a value starting with -68.134337
DemoLinesPresent(output) ==
    LET ls == Lines(output)
    IN \E n \in 1..(Len(ls) - 2) :
         /\ Holds(ls[n], <<"-65">>)
         /\ Holds(ls[n + 1], <<"5">>)
         /\ HoldsStart(ls[n + 2], <<"-68", ".", "134337">>)

AfterDemoCalls ==
    {c \in Range(sc.calls) : c \notin {"super.sanity_check_step", "load_fake_module",
                                       "run_shell_cmd(neurondemo)"}}

\* C2: the demo validation raises "Validation of NEURON demo run failed." iff
\* neurondemo returned a non-zero exit code or its output does not hold three
\* consecutive lines with -65, then 5, then a value starting with -68.134337; when it
\* raises, no later check has run, and when it does not, the step has gone on to them.
DemoValidation ==
    sc.demo /= None =>
        /\ sc.error = Some(DemoError) <=>
             sc.demo[1].exit_code /= 0 \/ ~DemoLinesPresent(sc.demo[1].output)
        /\ sc.error = Some(DemoError) => AfterDemoCalls = {} /\ sc.mpi_tests = None
        /\ sc.error /= Some(DemoError) => sc.mpi_tests /= None

\* the order of the checks around the demo validation, with the condition of the code
DemoValidationOrder ==
    sc.demo /= None =>
        /\ sc.error = Some(DemoError) <=> DemoFails(sc.demo[1])
        /\ sc.error = Some(DemoError) => AfterDemoCalls = {} /\ sc.mpi_tests = None
        /\ sc.error /= Some(DemoError) => sc.mpi_tests /= None

\* the parallel validation was reached and let the step go on
MpiPassed ==
    sc.mpi_tests = Some(TRUE) /\ sc.error \notin {Some(MpiError), Some(MpiOSError)}

\* the command ran and exited with 0, and the output holds "I am i of nproc" for
\* every rank i below nproc
AllRanksReported ==
    /\ sc.mpi /= None
    /\ sc.mpi[1].exit_code = 0
    /\ \A i \in 0..(sc.nproc[1] - 1) :
         Contains(sc.mpi[1].output, <<"I am ">> \o Dec(i) \o <<" of ">> \o Dec(sc.nproc[1]))

MpiCall == "run_shell_cmd(mpi_cmd_for(nrniv -mpi test0.hoc))"

MpiDisabled ==
    sc.mpi_tests = Some(FALSE) =>
        /\ Count(sc.calls, MpiCall) = 0
        /\ sc.mpi = None
        /\ sc.error \notin {Some(MpiError), Some(MpiOSError)}

\* C3 as stated: with mpi_tests enabled the parallel validation passes iff the MPI
\* command exited with 0 and every rank below nproc is reported, and raises
\* "Validation of parallel hello world run failed." otherwise; with mpi_tests
\* disabled no MPI command runs and the validation does not raise.
MpiValidationAsStated ==
    /\ sc.mpi_tests = Some(TRUE) =>
         /\ MpiPassed <=> AllRanksReported
         /\ ~MpiPassed => sc.error = Some(MpiError)
    /\ MpiDisabled

\* C3, amended: with mpi_tests enabled, a run in which changing the directory raised
\* OSError ends with "Failed to run parallel hello world"; every other run passes the
\* validation iff the MPI command exited with 0 and every rank below nproc is
\* reported, and raises "Validation of parallel hello world run failed." otherwise;
\* with mpi_tests disabled no MPI command runs and the validation does not raise.
MpiValidation ==
    /\ sc.mpi_tests = Some(TRUE) /\ sc.error /= Some(MpiOSError) =>
         /\ sc.mpi /= None
         /\ Count(sc.calls, MpiCall) = 1
         /\ MpiPassed <=> AllRanksReported
         /\ ~MpiPassed => sc.error = Some(MpiError)
    /\ MpiDisabled

MpiValidationWitness ==
    /\ sc.mpi_tests = Some(TRUE)
    /\ sc.nproc = Some(MaxNproc)
    /\ MpiPassed
    /\ AllRanksReported
    /\ sc.error = None

\* the positions of the module text that hold a given part
Positions(text, op, arg) == {i \in DOMAIN text : text[i].op = op /\ text[i].arg = arg}

OldOptions == jec.exts_default_options
NewOptions == jcfg.exts_default_options

\* C5: after __init__ every JuliaPackage parameter is in exts_default_options, with
\* the value it had there if it was present and the bundle's top-level value
\* otherwise; 'sources' is unchanged if it was present and is the default that
\* renames v%(version)s.tar.gz to %(name)s-%(version)s.tar.gz otherwise; no other
\* key is added; exts_defaultclass is 'JuliaPackage' and exts_filter is the filter of
\* Julia packages.
DefaultOptionsSet ==
    jstage /= "new" =>
        /\ \A key \in JlpkgKeys :
             /\ key \in DOMAIN NewOptions
             /\ NewOptions[key] =
                  IF key \in DOMAIN OldOptions THEN OldOptions[key] ELSE jec.top[key]
        /\ "sources" \in DOMAIN NewOptions
        /\ NewOptions["sources"] =
             IF "sources" \in DOMAIN OldOptions
             THEN OldOptions["sources"]
             ELSE <<[download_filename |-> "v%(version)s.tar.gz",
                     filename |-> "%(name)s-%(version)s.tar.gz"]>>
        /\ DOMAIN NewOptions = DOMAIN OldOptions \cup JlpkgKeys \cup {"sources"}
        /\ jcfg.top = jec.top
        /\ jcfg.exts_defaultclass = Some("JuliaPackage")
        /\ jcfg.exts_filter = Some(EXTS_FILTER_JULIA_PACKAGES)

DefaultOptionsSetWitness ==
    /\ jstage = "init"
    /\ DOMAIN OldOptions = {"options"}
    /\ jec.top["options"] /= jec.top["download_pkg_deps"]
    /\ jec.exts_defaultclass /= None
    /\ jec.exts_filter /= None

NoDot(s) == \A i \in DOMAIN s : s[i] /= "."

\* the version reads major.minor or major.minor.rest, the first dot being at
\* position a and minor ending before position b
IsMajorMinor(version, a, b) ==
    /\ a < b
    /\ version[a] = "."
    /\ NoDot(SubSeq(version, 1, a - 1))
    /\ NoDot(SubSeq(version, a + 1, b - 1))
    /\ b = Len(version) + 1 \/ version[b] = "."

\* C6: prepare_step raises "Julia not included as dependency!" iff there is no Julia
\* root, and then sets neither julia_project_toml nor julia_project_env and creates
\* no directory; with a root and a Julia version major.minor[.rest],
\* julia_project_toml is environments/v<major>.<minor>/Project.toml,
\* julia_project_env is its directory under the installation directory, and that
\* directory exists.
PrepareStep ==
    jstage \in {"prepare", "make_module_extra"} =>
        /\ jerr = Some(NoJuliaError) <=> jprep.root = None
        /\ jprep.root = None =>
             julia_project_toml = None /\ julia_project_env = None /\ dirs = {}
        /\ jprep.root /= None =>
             LET version == jprep.version[1]
             IN \A a \in 1..Len(version), b \in 2..(Len(version) + 1) :
                  IsMajorMinor(version, a, b) =>
                      LET major == SubSeq(version, 1, a - 1)
                          minor == SubSeq(version, a + 1, b - 1)
                          env_dir == <<"v">> \o major \o <<".">> \o minor
                      IN /\ jerr = None
                         /\ julia_project_toml = Some(<<"environments", env_dir, "Project.toml">>)
                         /\ julia_project_env = Some(<<"installdir", "environments", env_dir>>)
                         /\ <<"installdir", "environments", env_dir>> \in dirs

PrepareStepWitness ==
    /\ jstage = "prepare"
    /\ jprep.version = Some(<<"1", ".", "9", ".", "1">>)
    /\ julia_project_env = Some(<<"installdir", "environments", <<"v", "1", ".", "9">>>>)
    /\ <<"installdir", "environments", <<"v", "1", ".", "9">>>> \in dirs

====
